---- MODULE Spec2Model ----
(***************************************************************************)
(* The browser-side workflow controller of the PCI DSS compliance          *)
(* assistant (src/Frontend/script.js): analyze a file, then view or        *)
(* download the formatted report, with a persisted download history.       *)
(*                                                                         *)
(* One action is one run of an event handler up to its next await, or the  *)
(* continuation of a handler after an await.  The backend is a black box:  *)
(* it answers an outstanding request with any response of the request's    *)
(* kind, at any time.  alert() and the file chooser are modal: while one   *)
(* is open no handler runs and the user reaches no control of the page.    *)
(***************************************************************************)
EXTENDS Naturals, Sequences, FiniteSets

\* ------------------------------------------------------------------ bounds
\* StartAnalysis calls in one behaviour of Spec.
MaxAnalyses == 2
\* Successful downloads in one behaviour of Spec.
MaxSaves == 1
\* Successful downloads in one behaviour of SpecHistory (more than the cap).
MaxHistorySaves == 11

\* Length of the long response bodies (more than PreviewLength).
LongLen == 600

\* Analyses started in one behaviour of SpecHidden.
MaxHiddenAnalyses == 3

\* ------------------------------------------------------- program constants
MAX_HISTORY_ITEMS == 10
\* errorText.substring(0, 500)
PreviewLength == 500
\* responseText.substring(0, 100)
ResponsePreviewLength == 100

\* ------------------------------------------------------------- value sets
\* File names are sequences of characters.
FileReport == <<"r", ".", "x", "l", "s", "x">>
FileScan == <<"<", "b", ">", ".", "x", "l", "s">>
FileNames == {FileReport, FileScan}
NoName == << >>

\* The findings a successful analysis can return (opaque records).
Findings == {<< >>, <<"g1", "g2">>}

\* analysisResults: null, or an array of findings.
Null == [isNull |-> TRUE, items |-> << >>]
Arr(items) == [isNull |-> FALSE, items |-> items]

\* A response: kind is "transport" (fetch rejects), "error" (non-2xx) or
\* "success" (2xx); ctype is the content-type header ("none": no header);
\* form says what the body text is: "json" (parsable JSON), "badjson"
\* (not parsable), "pre" (text holding a <pre> element), "raw" (other text);
\* detail is the JSON body's detail field ("" when it has none); items is
\* the JSON array of a successful analysis.
Response(kind, ctype, form, detail, items) ==
  [kind |-> kind, ctype |-> ctype, form |-> form, detail |-> detail, items |-> items]
NoResponse == Response("pending", "none", "raw", "", << >>)

TransportFailure == Response("transport", "none", "raw", "", << >>)
ErrorResponses ==
  { Response("error", "json", "json", "bad file", << >>),
    Response("error", "html", "pre", "", << >>) }

AnalyzeResponses ==
  {TransportFailure} \cup ErrorResponses
    \cup { Response("success", "json", "json", "", fs) : fs \in Findings }
    \cup { Response("success", "html", "raw", "", << >>) }

ViewResponses ==
  {TransportFailure} \cup ErrorResponses
    \cup { Response("success", "html", "raw", "", << >>),
           Response("success", "json", "json", "", << >>),
           Response("success", "none", "raw", "", << >>) }

DownloadResponses ==
  {TransportFailure} \cup ErrorResponses
    \cup { Response("success", "xlsx", "raw", "", << >>),
           Response("success", "html", "raw", "", << >>),
           Response("success", "none", "raw", "", << >>) }

\* ---------------------------------------------------------------- state
VARIABLES
  analysisResults,       \* Null or Arr(findings)
  originalFilename,      \* name of the file of the last StartAnalysis
  fileInput,             \* fileInput.files: << >> or <<name>>
  dialogOpen,            \* the file chooser opened by fileInput.click()
  spinner,               \* TRUE: spinner.style.display = "block"
  analyzeButton,         \* [disabled, textContent]
  buttonsShown,          \* result container and view/download controls shown
  viewReportButton,      \* [disabled, textContent]
  downloadReportButton,  \* [disabled, textContent]
  modalShown,            \* modal.style.display = "flex"
  modalReportOutput,     \* modalReportOutput.innerHTML
  alertBox,              \* the alert() on screen, and what follows it
  analyzeReqs,           \* outstanding analyze requests
  viewReqs,              \* outstanding format-as-view requests
  downloadReqs,          \* outstanding format-as-download requests
  lastSaved,             \* the last file handed to the browser to save
  clock,                 \* number of files saved so far (the time of a save)
  localStorage,          \* the log under DOWNLOAD_HISTORY_KEY
  historyShown,          \* downloadHistoryModal.style.display = "flex"
  downloadHistoryOutput, \* downloadHistoryOutput.innerHTML
  issued,                \* history variable: StartAnalysis calls so far
  latest,                \* history variable: the last call and its response
  errorResponse,         \* a failed response whose message is being derived
  errorMessage,          \* error.message derived from errorResponse
  sourceName,            \* a source filename whose download name is derived
  savedName,             \* a.download derived from sourceName
  \* The hidden-element variant (src/unnamed/part_001), a page of its own:
  hiddenAnalyzeButton,   \* analyzeButton: [disabled, textContent]
  hiddenSpinner,         \* spinner.style.display = "block"
  hiddenContainerShown,  \* resultContainer without the class "hidden"
  hiddenViewShown,       \* viewReportButton.style.display = "block"
  reportOutput,          \* reportOutput.textContent, the stored text
  hiddenModalOutput,     \* modalReportOutput.textContent
  hiddenModalShown,      \* modal.style.display = "flex"
  hiddenFileInput,       \* fileInput.files: << >> or <<name>>
  hiddenReqs,            \* outstanding analyze requests
  hiddenIssued,          \* history variable: analyses started so far
  hiddenLatest           \* history variable: response of the last analysis

vars ==
  << analysisResults, originalFilename, fileInput, dialogOpen, spinner,
     analyzeButton, buttonsShown, viewReportButton, downloadReportButton,
     modalShown, modalReportOutput, alertBox, analyzeReqs, viewReqs,
     downloadReqs, lastSaved, clock, localStorage, historyShown,
     downloadHistoryOutput, issued, latest, errorResponse, errorMessage,
     sourceName, savedName, hiddenAnalyzeButton, hiddenSpinner,
     hiddenContainerShown, hiddenViewShown, reportOutput, hiddenModalOutput,
     hiddenModalShown, hiddenFileInput, hiddenReqs, hiddenIssued,
     hiddenLatest >>

uiVars == << spinner, analyzeButton, buttonsShown >>
historyVars == << lastSaved, clock, localStorage >>
historyViewVars == << historyShown, downloadHistoryOutput >>
ghostVars == << issued, latest >>
functionVars == << errorResponse, errorMessage, sourceName, savedName >>
hiddenVars ==
  << hiddenAnalyzeButton, hiddenSpinner, hiddenContainerShown,
     hiddenViewShown, reportOutput, hiddenModalOutput, hiddenModalShown,
     hiddenFileInput, hiddenReqs, hiddenIssued, hiddenLatest >>
workflowVars ==
  << analysisResults, originalFilename, fileInput, dialogOpen, uiVars,
     viewReportButton, downloadReportButton, modalShown, modalReportOutput,
     alertBox, analyzeReqs, viewReqs, downloadReqs, historyVars,
     historyViewVars, ghostVars >>

\* ------------------------------------------------------------- messages
\* The text of an Error: src names where it comes from, ctype the content
\* type it quotes.
Msg(src, ctype) == [src |-> src, ctype |-> ctype]
NoMsg == Msg("none", "none")

IsJson(ctype) == ctype = "json"
IsHtmlLoose(ctype) == ctype # "none"
IsHtml(ctype) == ctype = "html"
IsExcelLoose(ctype) == ctype # "none"
IsExcel(ctype) == ctype \in {"xlsx", "xls"}

\* The message of a non-2xx response: the default "... failed (HTTP n)"
\* unless the body can be read and parsed.
HttpErrorMsg(resp) ==
  IF IsJson(resp.ctype)
    THEN IF resp.form # "json" THEN Msg("status", "none")
         ELSE IF resp.detail # "" THEN Msg("detail", "none")
         ELSE Msg("text", "none")
    ELSE IF resp.form = "pre" THEN Msg("pre", "none")
         ELSE Msg("raw500", "none")

\* ------------------------------------------------------------------- text
\* A text is a sequence of characters.  The functions below are the string
\* methods the handlers call, computed on such sequences.
Min(a, b) == IF a <= b THEN a ELSE b
Repeat(c, n) == [i \in 1..n |-> c]

\* String.prototype.substring(start, end) for 0 <= start <= end.
Substring(s, start, end) == SubSeq(s, start + 1, Min(end, Len(s)))

WhiteSpace == {" ", "\t", "\n", "\r"}
LineTerminators == {"\n", "\r"}

RECURSIVE TrimStart(_)
TrimStart(s) ==
  IF s # << >> /\ Head(s) \in WhiteSpace THEN TrimStart(Tail(s)) ELSE s

RECURSIVE TrimEnd(_)
TrimEnd(s) ==
  IF s # << >> /\ s[Len(s)] \in WhiteSpace
    THEN TrimEnd(SubSeq(s, 1, Len(s) - 1))
    ELSE s

\* String.prototype.trim().
Trim(s) == TrimEnd(TrimStart(s))

\* The tags of /<pre>(.*?)<\/pre>/i at position i of s (any letter case).
IsOpenTag(s, i) ==
  /\ i + 4 <= Len(s)
  /\ s[i] = "<"
  /\ s[i + 1] \in {"p", "P"}
  /\ s[i + 2] \in {"r", "R"}
  /\ s[i + 3] \in {"e", "E"}
  /\ s[i + 4] = ">"

IsCloseTag(s, j) ==
  /\ j + 5 <= Len(s)
  /\ s[j] = "<"
  /\ s[j + 1] = "/"
  /\ s[j + 2] \in {"p", "P"}
  /\ s[j + 3] \in {"r", "R"}
  /\ s[j + 4] \in {"e", "E"}
  /\ s[j + 5] = ">"

\* The closing tags an opening tag at i can be matched with: "." matches
\* no line terminator, so none lies between the two tags.
ClosersOf(s, i) ==
  { j \in (i + 5)..Len(s) :
      /\ IsCloseTag(s, j)
      /\ \A k \in (i + 5)..(j - 1) : s[k] \notin LineTerminators }

Least(S) == CHOOSE x \in S : \A y \in S : x <= y

\* errorText.match(/<pre>(.*?)<\/pre>/i): the leftmost opening tag that has
\* a closer, with the nearest closer (lazy quantifier); group is match[1].
PreMatch(s) ==
  LET starts == { i \in 1..Len(s) : IsOpenTag(s, i) /\ ClosersOf(s, i) # {} }
  IN IF starts = {}
       THEN [found |-> FALSE, group |-> << >>]
       ELSE LET i == Least(starts)
                j == Least(ClosersOf(s, i))
            IN [found |-> TRUE, group |-> SubSeq(s, i + 5, j - 1)]

\* --------------------------------------------------------- response bodies
DetailBadFile ==
  <<"b", "a", "d", " ", "f", "i", "l", "e">>
TextDetailJson ==
  <<"{", "\"", "d", "e", "t", "a", "i", "l", "\"", ":", "\"", "b", "a",
    "d", " ", "f", "i", "l", "e", "\"", "}">>
TextEmptyDetailJson ==
  <<"{", "\"", "d", "e", "t", "a", "i", "l", "\"", ":", "\"", "\"", "}">>
TextErrorJson ==
  <<"{", "\"", "e", "r", "r", "o", "r", "\"", ":", "\"", "x", "\"", "}">>
TextPreInJson ==
  <<"{", "\"", "e", "\"", ":", "\"", "<", "p", "r", "e", ">", "p", "<",
    "/", "p", "r", "e", ">", "\"", "}">>
TextNullJson ==
  <<"n", "u", "l", "l">>
TextPre ==
  <<"<", "p", "r", "e", ">", " ", "b", "o", "o", "m", " ", "<", "/", "p",
    "r", "e", ">">>
TextTwoPre ==
  <<"<", "p", ">", "E", "<", "/", "p", ">", "<", "p", "r", "e", ">", "a",
    "<", "/", "p", "r", "e", ">", "<", "p", "r", "e", ">", "b", "<", "/",
    "p", "r", "e", ">">>
TextUpperPre ==
  <<"<", "P", "R", "E", ">", "a", "<", "/", "P", "R", "E", ">">>
TextMultiLinePre ==
  <<"<", "p", "r", "e", ">", "a", "\n", "b", "<", "/", "p", "r", "e", ">">>
TextBlankPre ==
  <<"<", "p", "r", "e", ">", " ", "<", "/", "p", "r", "e", ">">>
TextRaw ==
  <<"o", "o", "p", "s">>
TextOpenPre ==
  <<"<", "p", "r", "e", ">">>
TextClosePre ==
  <<"<", "/", "p", "r", "e", ">">>
TextJsonHead ==
  <<"{", "\"", "e", "r", "r", "o", "r", "\"", ":", "\"">>
TextJsonTail ==
  <<"\"", "}">>

\* A body is its text together with what JSON.parse makes of that text:
\* parses says whether it parses, isNull whether it parses to null (reading
\* null.detail throws), detail is the detail field (<< >>: absent or "").
Body(text, parses, isNull, detail) ==
  [text |-> text, parses |-> parses, isNull |-> isNull, detail |-> detail]
NotJson(text) == Body(text, FALSE, FALSE, << >>)
JsonObject(text, detail) == Body(text, TRUE, FALSE, detail)

LongText == Repeat("x", LongLen)

ErrorBodies ==
  { JsonObject(TextDetailJson, DetailBadFile),
    JsonObject(TextEmptyDetailJson, << >>),
    JsonObject(TextErrorJson, << >>),
    JsonObject(TextPreInJson, << >>),
    JsonObject(TextJsonHead \o LongText \o TextJsonTail, << >>),
    Body(TextNullJson, TRUE, TRUE, << >>),
    NotJson(TextPre),
    NotJson(TextTwoPre),
    NotJson(TextUpperPre),
    NotJson(TextMultiLinePre),
    NotJson(TextBlankPre),
    NotJson(TextOpenPre \o LongText \o TextClosePre),
    NotJson(TextRaw),
    NotJson(LongText),
    NotJson(<< >>) }

\* A failed exchange of one of the three handlers: the fetch rejects
\* ("transport"), the status is not 2xx ("error"), or it is 2xx with a
\* content type the handler does not expect ("success").
Failure(handler, kind, status, ctype, body) ==
  [handler |-> handler, kind |-> kind, status |-> status, ctype |-> ctype,
   body |-> body]
NoFailure == Failure("none", "pending", 0, "none", NotJson(<< >>))

Handlers == {"analyze", "view", "download"}
ErrorStatuses == {404, 500}
ErrorContentTypes == {"json", "html", "none"}

Expects(handler, ctype) ==
  CASE handler = "analyze" -> IsJson(ctype)
    [] handler = "view" -> IsHtml(ctype)
    [] OTHER -> IsExcel(ctype)

Failures ==
  { Failure(h, "transport", 0, "none", NotJson(<< >>)) : h \in Handlers }
    \cup { Failure(h, "error", st, ct, b) :
             h \in Handlers, st \in ErrorStatuses, ct \in ErrorContentTypes,
             b \in ErrorBodies }
    \cup { f \in { Failure(h, "success", 200, ct, b) :
                     h \in Handlers, ct \in ErrorContentTypes,
                     b \in {NotJson(TextRaw), NotJson(LongText)} } :
             ~Expects(f.handler, f.ctype) }

\* error.message: a fixed template with the status or content type it
\* interpolates, and the text it takes from the response body.
Message(template, status, ctype, text) ==
  [derived |-> TRUE, template |-> template, status |-> status,
   ctype |-> ctype, text |-> text]
NoMessage ==
  [derived |-> FALSE, template |-> "", status |-> 0, ctype |-> "none",
   text |-> << >>]
BodyText(text) == Message("", 0, "none", text)

DefaultMessage(handler, status) ==
  CASE handler = "analyze" -> Message("Analysis failed (HTTP n)", status, "none", << >>)
    [] handler = "view" -> Message("HTML formatting failed (HTTP n)", status, "none", << >>)
    [] OTHER -> Message("Excel generation failed (HTTP n)", status, "none", << >>)

\* The message of a non-2xx response.
ErrorMsg(f) ==
  IF IsJson(f.ctype)
    THEN IF ~f.body.parses \/ f.body.isNull
           THEN DefaultMessage(f.handler, f.status)
           ELSE IF f.body.detail # << >>
                  THEN BodyText(f.body.detail)
                  ELSE BodyText(f.body.text)
    ELSE LET match == PreMatch(f.body.text)
         IN IF match.found
              THEN BodyText(Trim(match.group))
              ELSE BodyText(Substring(f.body.text, 0, PreviewLength))

\* The message of a 2xx response of an unexpected content type.
UnexpectedTypeMsg(f) ==
  LET preview == Substring(f.body.text, 0, ResponsePreviewLength)
  IN CASE f.handler = "analyze" ->
            Message("Expected JSON but received c. Resp: t...", 0, f.ctype, preview)
       [] f.handler = "view" ->
            Message("Expected HTML but received c. Resp: t...", 0, f.ctype, preview)
       [] OTHER ->
            Message("Expected Excel file but received c. Resp: t...", 0, f.ctype, preview)

\* error.message in the catch block of a handler.
FailureMessage(f) ==
  CASE f.kind = "transport" -> Message("Failed to fetch", 0, "none", << >>)
    [] f.kind = "error" -> ErrorMsg(f)
    [] OTHER -> UnexpectedTypeMsg(f)

\* error.message === "".
IsEmptyMessage(m) == m.template = "" /\ m.text = << >>

\* ----------------------------------------------------------- DOM content
Html(kind, gen, items, name, msg) ==
  [kind |-> kind, gen |-> gen, items |-> items, name |-> name, msg |-> msg]
InitialHtml == Html("initial", 0, << >>, NoName, NoMsg)
ErrorHtml(msg) == Html("error", 0, << >>, NoName, msg)
NoFindingsHtmlNoName(name) == Html("nofindings", 0, << >>, NoName, NoMsg)
NoFindingsHtml(name) == Html("nofindings", 0, << >>, name, NoMsg)
\* What the formatting backend returns for a request: the report of the
\* findings and filename it was sent (gen: the analysis they came from).
ReportHtml(req) == Html("report", req.gen, req.items, req.name, NoMsg)

Alert(text, msg, then) == [shown |-> TRUE, text |-> text, msg |-> msg, then |-> then]
NoAlert == [shown |-> FALSE, text |-> "", msg |-> NoMsg, then |-> "return"]

Button(disabled, text) == [disabled |-> disabled, textContent |-> text]

\* ----------------------------------------------------------- UI helpers
SetLoadingStateNoDisable(isLoading, showButtons) ==
  [ spinner |-> isLoading,
    analyzeButton |->
      Button(FALSE, IF isLoading THEN "ANALYZING..." ELSE "UPLOAD & ANALYZE"),
    buttonsShown |-> showButtons ]

SetLoadingStateHideButtons(isLoading, showButtons) ==
  [ spinner |-> isLoading,
    analyzeButton |->
      Button(isLoading, IF isLoading THEN "ANALYZING..." ELSE "UPLOAD & ANALYZE"),
    buttonsShown |-> FALSE ]

SetLoadingStateKeepBusy(isLoading, showButtons) ==
  [ spinner |-> TRUE,
    analyzeButton |-> Button(TRUE, "ANALYZING..."),
    buttonsShown |-> showButtons ]

SetLoadingState(isLoading, showButtons) ==
  [ spinner |-> isLoading,
    analyzeButton |->
      Button(isLoading, IF isLoading THEN "ANALYZING..." ELSE "UPLOAD & ANALYZE"),
    buttonsShown |-> showButtons ]

ApplyLoadingState(ui) ==
  /\ spinner' = ui.spinner
  /\ analyzeButton' = ui.analyzeButton
  /\ buttonsShown' = ui.buttonsShown

\* No alert() and no file chooser is open: the user reaches the page.
PageIdle == ~alertBox.shown /\ ~dialogOpen

RemoveAt(s, i) == SubSeq(s, 1, i - 1) \o SubSeq(s, i + 1, Len(s))

\* ------------------------------------------------------------------ Init
EmptyLog == [readable |-> TRUE, entries |-> << >>]

InitPage(storage) ==
  /\ analysisResults = Null
  /\ originalFilename = NoName
  /\ fileInput = << >>
  /\ dialogOpen = FALSE
  /\ spinner = FALSE
  /\ analyzeButton = Button(FALSE, "UPLOAD & ANALYZE")
  \* The page's markup decides whether the result controls start hidden.
  /\ buttonsShown \in BOOLEAN
  /\ viewReportButton = Button(FALSE, "View Analysis Report")
  /\ downloadReportButton = Button(FALSE, "Download Report")
  /\ modalShown = FALSE
  /\ modalReportOutput = InitialHtml
  /\ alertBox = NoAlert
  /\ analyzeReqs = << >>
  /\ viewReqs = << >>
  /\ downloadReqs = << >>
  /\ lastSaved = [saved |-> FALSE, name |-> NoName, gen |-> 0, items |-> << >>]
  /\ clock = 0
  /\ localStorage = storage
  /\ historyShown = FALSE
  /\ downloadHistoryOutput = [kind |-> "initial", rows |-> << >>]
  /\ issued = 0
  /\ latest = [file |-> NoName, resp |-> NoResponse]

\* ------------------------------------------------- hidden-element variant
\* src/unnamed/part_001: the analysis returns a report text, which is kept
\* in the hidden element reportOutput and copied into the modal on demand.
\* A text: empty, the placeholder, a report, or the message of an error.
Text(kind, body) == [kind |-> kind, body |-> body]
EmptyText == Text("empty", "")
ProgressText == Text("progress", "Report generation in progress...")

\* A response of the variant's backend: form says whether response.json()
\* parses the body, detail is its detail field ("" when it has none), report
\* its report field.
HiddenResponse(kind, form, detail, report) ==
  [kind |-> kind, form |-> form, detail |-> detail, report |-> report]
NoHiddenResponse == HiddenResponse("pending", "text", "", "")
HiddenResponses ==
  { HiddenResponse("transport", "text", "", ""),
    HiddenResponse("error", "json", "bad file", ""),
    HiddenResponse("error", "json", "", ""),
    HiddenResponse("error", "text", "", ""),
    HiddenResponse("success", "text", "", ""),
    HiddenResponse("success", "json", "", "report A"),
    HiddenResponse("success", "json", "", "report B") }

\* error.message in the catch block.
HiddenErrorMessage(resp) ==
  IF resp.kind = "transport" THEN "Failed to fetch"
  ELSE IF resp.form # "json" THEN "Unexpected token"
  ELSE IF resp.detail # "" THEN resp.detail
  ELSE "HTTP error! Status: n"

HiddenSucceeded(resp) == resp.kind = "success" /\ resp.form = "json"

\* reportOutput.textContent once the request has resolved.
StoredTextNone(resp) == EmptyText
StoredText(resp) ==
  IF HiddenSucceeded(resp)
    THEN Text("report", resp.report)
    ELSE Text("error", HiddenErrorMessage(resp))

InitHiddenPage(viewShown) ==
  /\ hiddenAnalyzeButton = Button(FALSE, "UPLOAD & ANALYZE")
  /\ hiddenSpinner = FALSE
  /\ hiddenContainerShown = FALSE
  /\ hiddenViewShown = viewShown
  /\ reportOutput = EmptyText
  /\ hiddenModalOutput = EmptyText
  /\ hiddenModalShown = FALSE
  /\ hiddenFileInput = << >>
  /\ hiddenReqs = << >>
  /\ hiddenIssued = 0
  /\ hiddenLatest = NoHiddenResponse

InitHiddenIdle == InitHiddenPage(FALSE)

\* The change event of the file input with file f chosen, up to the fetch.
\* The chooser is reached through the trigger, which is disabled meanwhile.
HiddenSelectFile(f, maxAnalyses) ==
  /\ ~hiddenAnalyzeButton.disabled
  /\ hiddenIssued < maxAnalyses
  /\ hiddenFileInput' = <<f>>
  /\ hiddenAnalyzeButton' = Button(TRUE, "Analyzing...")
  /\ hiddenContainerShown' = TRUE
  /\ hiddenSpinner' = TRUE
  /\ hiddenViewShown' = FALSE
  /\ reportOutput' = EmptyText
  /\ hiddenModalOutput' = ProgressText
  /\ hiddenReqs' = Append(hiddenReqs, [id |-> hiddenIssued + 1, file |-> f,
                                       resp |-> NoHiddenResponse])
  /\ hiddenIssued' = hiddenIssued + 1
  /\ hiddenLatest' = NoHiddenResponse
  /\ UNCHANGED << workflowVars, functionVars, hiddenModalShown >>

\* The backend (or the transport) answers an outstanding request.
HiddenBackendRespond(i, r) ==
  /\ i \in 1..Len(hiddenReqs)
  /\ hiddenReqs[i].resp = NoHiddenResponse
  /\ hiddenReqs' = [hiddenReqs EXCEPT ![i].resp = r]
  /\ UNCHANGED << workflowVars, functionVars, hiddenAnalyzeButton,
                  hiddenSpinner, hiddenContainerShown, hiddenViewShown,
                  reportOutput, hiddenModalOutput, hiddenModalShown,
                  hiddenFileInput, hiddenIssued, hiddenLatest >>

\* The handler from the resolution of its fetch to its end: the text is
\* stored, openModal() copies it into the modal, the finally restores the UI.
HiddenHandleResponse(i) ==
  /\ i \in 1..Len(hiddenReqs)
  /\ hiddenReqs[i].resp # NoHiddenResponse
  /\ LET req == hiddenReqs[i] IN
       /\ hiddenReqs' = RemoveAt(hiddenReqs, i)
       /\ reportOutput' = StoredText(req.resp)
       /\ hiddenModalOutput' = StoredText(req.resp)
       /\ hiddenLatest' =
            IF req.id = hiddenIssued THEN req.resp ELSE hiddenLatest
  /\ hiddenModalShown' = TRUE
  /\ hiddenAnalyzeButton' = Button(FALSE, "UPLOAD & ANALYZE")
  /\ hiddenSpinner' = FALSE
  /\ hiddenViewShown' = TRUE
  /\ hiddenFileInput' = << >>
  /\ UNCHANGED << workflowVars, functionVars, hiddenContainerShown, hiddenIssued >>

\* viewReportButton click: openModal().  A control that is not displayed
\* receives no click.
HiddenOpenModal ==
  /\ hiddenViewShown
  /\ hiddenModalOutput' = reportOutput
  /\ hiddenModalShown' = TRUE
  /\ UNCHANGED << workflowVars, functionVars, hiddenAnalyzeButton,
                  hiddenSpinner, hiddenContainerShown, hiddenViewShown,
                  reportOutput, hiddenFileInput, hiddenReqs, hiddenIssued,
                  hiddenLatest >>

HiddenCloseModal ==
  /\ hiddenModalShown
  /\ hiddenModalShown' = FALSE
  /\ UNCHANGED << workflowVars, functionVars, hiddenAnalyzeButton,
                  hiddenSpinner, hiddenContainerShown, hiddenViewShown,
                  reportOutput, hiddenModalOutput, hiddenFileInput,
                  hiddenReqs, hiddenIssued, hiddenLatest >>

InitFunctionsIdle ==
  /\ errorResponse = NoFailure
  /\ errorMessage = NoMessage
  /\ sourceName = NoName
  /\ savedName = NoName

\* First visit: nothing is stored under DOWNLOAD_HISTORY_KEY.
InitWorkflow == InitPage(EmptyLog)

Init ==
  /\ InitWorkflow
  /\ InitFunctionsIdle
  /\ InitHiddenIdle

\* ------------------------------------------------------------ StartAnalysis
\* analyzeButton click: fileInput.click() opens the file chooser.  A
\* disabled button dispatches no click.
ClickAnalyze ==
  /\ PageIdle
  /\ ~analyzeButton.disabled
  /\ dialogOpen' = TRUE
  /\ UNCHANGED << hiddenVars, functionVars, analysisResults, originalFilename, fileInput, uiVars,
                  viewReportButton, downloadReportButton, modalShown,
                  modalReportOutput, alertBox, analyzeReqs, viewReqs,
                  downloadReqs, historyVars, historyViewVars, ghostVars >>

\* The chooser is dismissed without a file: handleFileAnalysis, if it runs
\* at all, returns at once (fileInput.files.length === 0).
CancelDialog ==
  /\ dialogOpen
  /\ ~alertBox.shown
  /\ dialogOpen' = FALSE
  /\ UNCHANGED << hiddenVars, functionVars, analysisResults, originalFilename, fileInput, uiVars,
                  viewReportButton, downloadReportButton, modalShown,
                  modalReportOutput, alertBox, analyzeReqs, viewReqs,
                  downloadReqs, historyVars, historyViewVars, ghostVars >>

\* analysisResults = null (line 69) and originalFilename = file.name (line 70).
ResultsKeptAtStart == analysisResults
ResultsAtStart == Null
StoredFilenameKept(f) == originalFilename
StoredFilename(f) == f

\* The change event with file f chosen: handleFileAnalysis up to its fetch.
HandleFileAnalysis(f) ==
  /\ dialogOpen
  /\ ~alertBox.shown
  /\ issued < MaxAnalyses
  /\ dialogOpen' = FALSE
  /\ fileInput' = <<f>>
  /\ ApplyLoadingState(SetLoadingState(TRUE, FALSE))
  /\ analysisResults' = ResultsAtStart
  /\ originalFilename' = StoredFilename(f)
  /\ analyzeReqs' = Append(analyzeReqs, [id |-> issued + 1, file |-> f, resp |-> NoResponse])
  /\ issued' = issued + 1
  /\ latest' = [file |-> f, resp |-> NoResponse]
  /\ UNCHANGED << hiddenVars, functionVars, viewReportButton, downloadReportButton, modalShown,
                  modalReportOutput, alertBox, viewReqs, downloadReqs,
                  historyVars, historyViewVars >>

\* The backend (or the transport) answers an outstanding analyze request.
BackendRespondAnalyze(i, r) ==
  /\ i \in 1..Len(analyzeReqs)
  /\ analyzeReqs[i].resp = NoResponse
  /\ analyzeReqs' = [analyzeReqs EXCEPT ![i].resp = r]
  /\ UNCHANGED << hiddenVars, functionVars, analysisResults, originalFilename, fileInput, dialogOpen,
                  uiVars, viewReportButton, downloadReportButton, modalShown,
                  modalReportOutput, alertBox, viewReqs, downloadReqs,
                  historyVars, historyViewVars, ghostVars >>

\* The analyze response is accepted: 2xx, a JSON content type, a body that
\* parses.
AnalyzeSucceededAnyType(resp) == resp.kind = "success"
AnalyzeSucceeded(resp) ==
  resp.kind = "success" /\ IsJson(resp.ctype) /\ resp.form = "json"

\* error.message in the catch of handleFileAnalysis.
AnalyzeFailureMsg(resp) ==
  IF resp.kind = "transport" THEN Msg("transport", "none")
  ELSE IF resp.kind = "error" THEN HttpErrorMsg(resp)
  ELSE IF ~IsJson(resp.ctype) THEN Msg("expectedJson", resp.ctype)
  ELSE Msg("syntax", "none")

\* fileInput.files after the finally of handleFileAnalysis.
FileInputKept == fileInput
FileInputAfterAnalysis == << >>

\* analysisResults after the catch of handleFileAnalysis.
ResultsAfterFailure == Null

\* handleFileAnalysis from the resolution of its fetch to its end.
HandleAnalyzeResponse(i) ==
  /\ ~alertBox.shown
  /\ i \in 1..Len(analyzeReqs)
  /\ analyzeReqs[i].resp # NoResponse
  /\ LET req == analyzeReqs[i] IN
       /\ analyzeReqs' = RemoveAt(analyzeReqs, i)
       /\ IF AnalyzeSucceeded(req.resp)
            THEN /\ analysisResults' = Arr(req.resp.items)
                 /\ UNCHANGED << modalShown, modalReportOutput >>
            ELSE /\ modalReportOutput' = ErrorHtml(AnalyzeFailureMsg(req.resp))
                 /\ modalShown' = TRUE
                 /\ analysisResults' = ResultsAfterFailure
       /\ ApplyLoadingState(SetLoadingState(FALSE, TRUE))
       /\ fileInput' = FileInputAfterAnalysis
       /\ latest' = IF req.id = issued THEN [latest EXCEPT !.resp = req.resp] ELSE latest
  /\ UNCHANGED << hiddenVars, functionVars, originalFilename, dialogOpen, viewReportButton,
                  downloadReportButton, alertBox, viewReqs, downloadReqs,
                  historyVars, historyViewVars, issued >>

\* --------------------------------------------------------------- ViewReport
\* !analysisResults
NoAnalysisDataNever == FALSE
NoAnalysisData == analysisResults.isNull

\* analysisResults.length === 0
NoFindingsNever == FALSE
NoFindings == Len(analysisResults.items) = 0

ViewButtonIdle == Button(FALSE, "View Analysis Report")
ViewButtonBusyEnabled == Button(FALSE, "Loading View...")
ViewButtonBusy == Button(TRUE, "Loading View...")

\* handleViewHtmlReport up to its fetch (or its early return).
HandleViewHtmlReport ==
  /\ PageIdle
  /\ buttonsShown
  /\ ~viewReportButton.disabled
  /\ IF NoAnalysisData
       THEN /\ alertBox' = Alert("No analysis data available. Please analyze a file first.",
                                 NoMsg, "return")
            /\ UNCHANGED << viewReportButton, viewReqs, modalShown, modalReportOutput >>
       ELSE IF NoFindings
         THEN /\ modalReportOutput' = NoFindingsHtml(originalFilename)
              /\ modalShown' = TRUE
              /\ UNCHANGED << viewReportButton, viewReqs, alertBox >>
         ELSE /\ viewReportButton' = ViewButtonBusy
              /\ viewReqs' = Append(viewReqs,
                   [gen |-> issued, items |-> analysisResults.items,
                    name |-> originalFilename, resp |-> NoResponse])
              /\ UNCHANGED << alertBox, modalShown, modalReportOutput >>
  /\ UNCHANGED << hiddenVars, functionVars, analysisResults, originalFilename, fileInput, dialogOpen,
                  uiVars, downloadReportButton, analyzeReqs, downloadReqs,
                  historyVars, historyViewVars, ghostVars >>

BackendRespondView(i, r) ==
  /\ i \in 1..Len(viewReqs)
  /\ viewReqs[i].resp = NoResponse
  /\ viewReqs' = [viewReqs EXCEPT ![i].resp = r]
  /\ UNCHANGED << hiddenVars, functionVars, analysisResults, originalFilename, fileInput, dialogOpen,
                  uiVars, viewReportButton, downloadReportButton, modalShown,
                  modalReportOutput, alertBox, analyzeReqs, downloadReqs,
                  historyVars, historyViewVars, ghostVars >>

ViewSucceededAnyType(resp) == resp.kind = "success"
ViewSucceeded(resp) == resp.kind = "success" /\ IsHtml(resp.ctype)

\* error.message in the catch of handleViewHtmlReport.
ViewFailureMsg(resp) ==
  IF resp.kind = "transport" THEN Msg("transport", "none")
  ELSE IF resp.kind = "error" THEN HttpErrorMsg(resp)
  ELSE Msg("expectedHtml", resp.ctype)

\* handleViewHtmlReport from the resolution of its fetch: on success to its
\* end, on failure to the alert() of its catch.
HandleViewResponse(i) ==
  /\ ~alertBox.shown
  /\ i \in 1..Len(viewReqs)
  /\ viewReqs[i].resp # NoResponse
  /\ LET req == viewReqs[i] IN
       /\ viewReqs' = RemoveAt(viewReqs, i)
       /\ IF ViewSucceeded(req.resp)
            THEN /\ modalReportOutput' = ReportHtml(req)
                 /\ modalShown' = TRUE
                 /\ viewReportButton' = ViewButtonIdle
                 /\ UNCHANGED alertBox
            ELSE /\ alertBox' = Alert("Could not display report", ViewFailureMsg(req.resp),
                                      "viewFinally")
                 /\ UNCHANGED << modalReportOutput, modalShown, viewReportButton >>
  /\ UNCHANGED << hiddenVars, functionVars, analysisResults, originalFilename, fileInput, dialogOpen,
                  uiVars, downloadReportButton, analyzeReqs, downloadReqs,
                  historyVars, historyViewVars, ghostVars >>

\* ----------------------------------------------------------- DownloadReport
DownloadButtonStuck == Button(TRUE, "DOWNLOADING...")
DownloadButtonIdle == Button(FALSE, "Download Report")
DownloadButtonBusy == Button(TRUE, "DOWNLOADING...")

DotXlsx == <<".", "x", "l", "s", "x">>
DotXls == <<".", "x", "l", "s">>
ReportPrefix ==
  << "P", "C", "I", "_", "D", "S", "S", "_", "A", "c", "t", "i", "o", "n", "_",
     "R", "e", "p", "o", "r", "t", "_" >>

EndsWith(s, suffix) ==
  /\ Len(s) >= Len(suffix)
  /\ SubSeq(s, Len(s) - Len(suffix) + 1, Len(s)) = suffix

\* originalFilename.replace(/\.(xlsx|xls)$/, '')
CleanFilename(name) ==
  IF EndsWith(name, DotXlsx) THEN SubSeq(name, 1, Len(name) - Len(DotXlsx))
  ELSE IF EndsWith(name, DotXls) THEN SubSeq(name, 1, Len(name) - Len(DotXls))
  ELSE name

DownloadFilename(name) == ReportPrefix \o CleanFilename(name) \o DotXlsx

Take(s, n) == SubSeq(s, 1, IF Len(s) < n THEN Len(s) ELSE n)

\* saveDownloadToHistory: the log after saving filename at time now.
SaveNoTrim(storage, filename, now) ==
  IF ~storage.readable THEN storage
  ELSE [storage EXCEPT !.entries =
          <<[filename |-> filename, timestamp |-> now]>> \o storage.entries]

SaveDownloadTwice(storage, filename, now) ==
  IF ~storage.readable THEN storage
  ELSE [storage EXCEPT !.entries =
          Take(<<[filename |-> filename, timestamp |-> now],
                 [filename |-> filename, timestamp |-> now]>> \o storage.entries,
               MAX_HISTORY_ITEMS)]

SaveDownloadToHistory(storage, filename, now) ==
  IF ~storage.readable THEN storage
  ELSE [storage EXCEPT !.entries =
          Take(<<[filename |-> filename, timestamp |-> now]>> \o storage.entries,
               MAX_HISTORY_ITEMS)]

\* handleExcelDownload up to its fetch (or its early return).
HandleExcelDownload ==
  /\ PageIdle
  /\ buttonsShown
  /\ ~downloadReportButton.disabled
  /\ IF NoAnalysisData
       THEN /\ alertBox' = Alert("No analysis data available to download.", NoMsg, "return")
            /\ UNCHANGED << downloadReportButton, downloadReqs >>
       ELSE IF NoFindings
         THEN /\ alertBox' = Alert("Analysis completed, but no findings were generated to download.",
                                   NoMsg, "return")
              /\ UNCHANGED << downloadReportButton, downloadReqs >>
         ELSE /\ downloadReportButton' = DownloadButtonBusy
              /\ downloadReqs' = Append(downloadReqs,
                   [gen |-> issued, items |-> analysisResults.items,
                    name |-> originalFilename, resp |-> NoResponse])
              /\ UNCHANGED alertBox
  /\ UNCHANGED << hiddenVars, functionVars, analysisResults, originalFilename, fileInput, dialogOpen,
                  uiVars, viewReportButton, modalShown, modalReportOutput,
                  analyzeReqs, viewReqs, historyVars, historyViewVars, ghostVars >>

DownloadSucceeded(resp) == resp.kind = "success" /\ IsExcel(resp.ctype)

\* maxSaves bounds the number of files saved in one behaviour.
BackendRespondDownload(i, r, maxSaves) ==
  /\ i \in 1..Len(downloadReqs)
  /\ downloadReqs[i].resp = NoResponse
  /\ DownloadSucceeded(r) => clock < maxSaves
  /\ downloadReqs' = [downloadReqs EXCEPT ![i].resp = r]
  /\ UNCHANGED << hiddenVars, functionVars, analysisResults, originalFilename, fileInput, dialogOpen,
                  uiVars, viewReportButton, downloadReportButton, modalShown,
                  modalReportOutput, alertBox, analyzeReqs, viewReqs,
                  historyVars, historyViewVars, ghostVars >>

\* error.message in the catch of handleExcelDownload.
DownloadFailureMsg(resp) ==
  IF resp.kind = "transport" THEN Msg("transport", "none")
  ELSE IF resp.kind = "error" THEN HttpErrorMsg(resp)
  ELSE Msg("expectedExcel", resp.ctype)

\* handleExcelDownload from the resolution of its fetch: on success to its
\* end, on failure to the alert() of its catch.
HandleDownloadResponse(i) ==
  /\ ~alertBox.shown
  /\ i \in 1..Len(downloadReqs)
  /\ downloadReqs[i].resp # NoResponse
  /\ LET req == downloadReqs[i] IN
       /\ downloadReqs' = RemoveAt(downloadReqs, i)
       /\ IF DownloadSucceeded(req.resp)
            THEN LET downloadFilename == DownloadFilename(originalFilename) IN
                 /\ lastSaved' = [saved |-> TRUE, name |-> downloadFilename,
                                  gen |-> req.gen, items |-> req.items]
                 /\ clock' = clock + 1
                 /\ localStorage' = SaveDownloadToHistory(localStorage, downloadFilename, clock + 1)
                 /\ downloadReportButton' = DownloadButtonIdle
                 /\ UNCHANGED alertBox
            ELSE /\ alertBox' = Alert("Could not download report", DownloadFailureMsg(req.resp),
                                      "downloadFinally")
                 /\ UNCHANGED << historyVars, downloadReportButton >>
  /\ UNCHANGED << hiddenVars, functionVars, analysisResults, originalFilename, fileInput, dialogOpen,
                  uiVars, viewReportButton, modalShown, modalReportOutput,
                  analyzeReqs, viewReqs, historyViewVars, ghostVars >>

\* The user dismisses the alert(); the handler that raised it runs on: the
\* finally of a failed view or download restores the control.
DismissAlert ==
  /\ alertBox.shown
  /\ alertBox' = NoAlert
  /\ viewReportButton' =
       IF alertBox.then = "viewFinally" THEN ViewButtonIdle ELSE viewReportButton
  /\ downloadReportButton' =
       IF alertBox.then = "downloadFinally" THEN DownloadButtonIdle ELSE downloadReportButton
  /\ UNCHANGED << hiddenVars, functionVars, analysisResults, originalFilename, fileInput, dialogOpen,
                  uiVars, modalShown, modalReportOutput, analyzeReqs, viewReqs,
                  downloadReqs, historyVars, historyViewVars, ghostVars >>

\* ----------------------------------------------------------- modal, history
CloseModal ==
  /\ PageIdle
  /\ modalShown
  /\ modalShown' = FALSE
  /\ UNCHANGED << hiddenVars, functionVars, analysisResults, originalFilename, fileInput, dialogOpen,
                  uiVars, viewReportButton, downloadReportButton,
                  modalReportOutput, alertBox, analyzeReqs, viewReqs,
                  downloadReqs, historyVars, historyViewVars, ghostVars >>

EscapeCharLtOnly(c) ==
  IF c = "<" THEN <<"&", "l", "t", ";">> ELSE <<c>>

EscapeChar(c) ==
  IF c = "<" THEN <<"&", "l", "t", ";">>
  ELSE IF c = ">" THEN <<"&", "g", "t", ";">>
  ELSE <<c>>

\* filename.replace(/</g, "&lt;").replace(/>/g, "&gt;")
RECURSIVE EscapeFilename(_)
EscapeFilename(name) ==
  IF name = << >> THEN << >>
  ELSE EscapeChar(Head(name)) \o EscapeFilename(Tail(name))

\* date.toLocaleString() of a stored timestamp.
FormatDate(timestamp) == [local |-> timestamp]

HistoryHtmlReversed(storage) ==
  IF ~storage.readable THEN [kind |-> "error", rows |-> << >>]
  ELSE IF Len(storage.entries) = 0 THEN [kind |-> "empty", rows |-> << >>]
  ELSE [kind |-> "list",
        rows |-> [k \in 1..Len(storage.entries) |->
                    LET entry == storage.entries[Len(storage.entries) + 1 - k]
                    IN [safeFilename |-> EscapeFilename(entry.filename),
                        formattedDate |-> FormatDate(entry.timestamp)]]]

\* The markup displayDownloadHistory builds from the log.
HistoryHtml(storage) ==
  IF ~storage.readable THEN [kind |-> "error", rows |-> << >>]
  ELSE IF Len(storage.entries) = 0 THEN [kind |-> "empty", rows |-> << >>]
  ELSE [kind |-> "list",
        rows |-> [k \in 1..Len(storage.entries) |->
                    [safeFilename |-> EscapeFilename(storage.entries[k].filename),
                     formattedDate |-> FormatDate(storage.entries[k].timestamp)]]]

DisplayDownloadHistory ==
  /\ PageIdle
  /\ downloadHistoryOutput' = HistoryHtml(localStorage)
  /\ historyShown' = TRUE
  /\ UNCHANGED << hiddenVars, functionVars, analysisResults, originalFilename, fileInput, dialogOpen,
                  uiVars, viewReportButton, downloadReportButton, modalShown,
                  modalReportOutput, alertBox, analyzeReqs, viewReqs,
                  downloadReqs, historyVars, ghostVars >>

CloseDownloadHistoryModal ==
  /\ PageIdle
  /\ historyShown
  /\ historyShown' = FALSE
  /\ UNCHANGED << hiddenVars, functionVars, analysisResults, originalFilename, fileInput, dialogOpen,
                  uiVars, viewReportButton, downloadReportButton, modalShown,
                  modalReportOutput, alertBox, analyzeReqs, viewReqs,
                  downloadReqs, historyVars, downloadHistoryOutput, ghostVars >>

\* ------------------------------------------------------------ specifications
\* The analyze / view / download workflow.  The history dialog is left to
\* SpecHistory: its two actions write only historyShown and
\* downloadHistoryOutput, which no action of the workflow reads.
Next ==
  \/ ClickAnalyze
  \/ CancelDialog
  \/ \E f \in FileNames : HandleFileAnalysis(f)
  \/ \E i \in 1..Len(analyzeReqs), r \in AnalyzeResponses : BackendRespondAnalyze(i, r)
  \/ \E i \in 1..Len(analyzeReqs) : HandleAnalyzeResponse(i)
  \/ HandleViewHtmlReport
  \/ \E i \in 1..Len(viewReqs), r \in ViewResponses : BackendRespondView(i, r)
  \/ \E i \in 1..Len(viewReqs) : HandleViewResponse(i)
  \/ HandleExcelDownload
  \/ \E i \in 1..Len(downloadReqs), r \in DownloadResponses :
       BackendRespondDownload(i, r, MaxSaves)
  \/ \E i \in 1..Len(downloadReqs) : HandleDownloadResponse(i)
  \/ DismissAlert
  \/ CloseModal

Spec == Init /\ [][Next]_vars

\* The download history: analyses that succeed, then downloads past the cap of
\* the log, with the history dialog opened and closed in between.
HistoryFileNames == FileNames
HistoryAnalyzeResponses ==
  { Response("success", "json", "json", "", <<"g1", "g2">>) }
HistoryDownloadResponses ==
  { TransportFailure, Response("success", "xlsx", "raw", "", << >>) }

NextHistory ==
  \/ ClickAnalyze
  \/ \E f \in HistoryFileNames : HandleFileAnalysis(f)
  \/ \E i \in 1..Len(analyzeReqs), r \in HistoryAnalyzeResponses : BackendRespondAnalyze(i, r)
  \/ \E i \in 1..Len(analyzeReqs) : HandleAnalyzeResponse(i)
  \/ HandleExcelDownload
  \/ \E i \in 1..Len(downloadReqs), r \in HistoryDownloadResponses :
       BackendRespondDownload(i, r, MaxHistorySaves)
  \/ \E i \in 1..Len(downloadReqs) : HandleDownloadResponse(i)
  \/ DismissAlert
  \/ DisplayDownloadHistory
  \/ CloseDownloadHistoryModal

SpecHistory == Init /\ [][NextHistory]_vars

\* The history dialog over a log left by earlier visits: nothing, two
\* entries, or content that cannot be read as a list of entries.
OldName == <<"P", "<", "i", ">", ".", "x", "l", "s", "x">>
OlderName == <<"P", "o", ".", "x", "l", "s", "x">>
StoredLogs ==
  { EmptyLog,
    [readable |-> TRUE,
     entries |-> << [filename |-> OldName, timestamp |-> 0],
                    [filename |-> OlderName, timestamp |-> 0] >>],
    [readable |-> FALSE, entries |-> << >>] }

InitStoredLog ==
  /\ \E storage \in StoredLogs : InitPage(storage)
  /\ InitFunctionsIdle
  /\ InitHiddenIdle

NextStoredLog ==
  \/ ClickAnalyze
  \/ \E f \in HistoryFileNames : HandleFileAnalysis(f)
  \/ \E i \in 1..Len(analyzeReqs), r \in HistoryAnalyzeResponses : BackendRespondAnalyze(i, r)
  \/ \E i \in 1..Len(analyzeReqs) : HandleAnalyzeResponse(i)
  \/ HandleExcelDownload
  \/ \E i \in 1..Len(downloadReqs), r \in HistoryDownloadResponses :
       BackendRespondDownload(i, r, MaxSaves)
  \/ \E i \in 1..Len(downloadReqs) : HandleDownloadResponse(i)
  \/ DismissAlert
  \/ DisplayDownloadHistory
  \/ CloseDownloadHistoryModal

SpecStoredLog == InitStoredLog /\ [][NextStoredLog]_vars

\* The functions of the handlers on their own: the message derived from a
\* failed exchange and the download name derived from a source filename,
\* for every failure and every name below.
FileUpper == <<"R", ".", "X", "L", "S", "X">>
FileCsv == <<"d", ".", "c", "s", "v">>
FileTwoDots == <<"a", ".", "b", ".", "x", "l", "s", "x">>
FileNoExtension == <<"n", "o", "t", "e", "s">>
SourceNames == FileNames \cup {FileUpper, FileCsv, FileTwoDots, FileNoExtension}

InitFunctions ==
  /\ InitWorkflow
  /\ InitHiddenIdle
  /\ errorResponse \in Failures
  /\ errorMessage = NoMessage
  /\ sourceName \in SourceNames
  /\ savedName = NoName

\* The catch block of a handler reads error.message.
DeriveFailureMessage ==
  /\ ~errorMessage.derived
  /\ errorMessage' = FailureMessage(errorResponse)
  /\ UNCHANGED << hiddenVars, workflowVars, errorResponse, sourceName, savedName >>

\* handleExcelDownload builds a.download from the source filename.
DeriveDownloadFilename ==
  /\ savedName = NoName
  /\ savedName' = DownloadFilename(sourceName)
  /\ UNCHANGED << hiddenVars, workflowVars, errorResponse, errorMessage, sourceName >>

NextFunctions ==
  \/ DeriveFailureMessage
  \/ DeriveDownloadFilename

SpecFunctions == InitFunctions /\ [][NextFunctions]_vars

\* The analysis under the scheduling of the browser: a fetch that is
\* outstanding is answered (the assumption under which termination is
\* stated), and the continuation of handleFileAnalysis, once queued, is run
\* by the event loop whenever no alert() blocks the page.
LiveFileNames == {FileReport}
LiveAnalyzeResponses ==
  { TransportFailure, Response("success", "json", "json", "", <<"g1", "g2">>) }
LiveViewResponses ==
  { TransportFailure, Response("success", "html", "raw", "", << >>) }

AnalyzeAnswered ==
  \E i \in 1..Len(analyzeReqs), r \in LiveAnalyzeResponses : BackendRespondAnalyze(i, r)
AnalyzeContinues ==
  \E i \in 1..Len(analyzeReqs) : HandleAnalyzeResponse(i)

NextLive ==
  \/ ClickAnalyze
  \/ \E f \in LiveFileNames : HandleFileAnalysis(f)
  \/ AnalyzeAnswered
  \/ AnalyzeContinues
  \/ HandleViewHtmlReport
  \/ \E i \in 1..Len(viewReqs), r \in LiveViewResponses : BackendRespondView(i, r)
  \/ \E i \in 1..Len(viewReqs) : HandleViewResponse(i)
  \/ DismissAlert
  \/ CloseModal

SpecLive ==
  /\ Init
  /\ [][NextLive]_vars
  /\ WF_vars(AnalyzeAnswered)
  /\ SF_vars(AnalyzeContinues)

\* The hidden-element variant on its own page.
HiddenFileNames == FileNames

InitHidden ==
  /\ InitWorkflow
  /\ InitFunctionsIdle
  /\ \E viewShown \in BOOLEAN : InitHiddenPage(viewShown)

NextHidden ==
  \/ \E f \in HiddenFileNames : HiddenSelectFile(f, MaxHiddenAnalyses)
  \/ \E i \in 1..Len(hiddenReqs), r \in HiddenResponses : HiddenBackendRespond(i, r)
  \/ \E i \in 1..Len(hiddenReqs) : HiddenHandleResponse(i)
  \/ HiddenOpenModal
  \/ HiddenCloseModal

SpecHidden == InitHidden /\ [][NextHidden]_vars

\* ================================================================= claims
\* The spec's status, read off the controller's state.
Status ==
  IF Len(analyzeReqs) > 0 THEN "Analyzing"
  ELSE IF ~analysisResults.isNull THEN "Ready"
  ELSE IF issued = 0 THEN "Idle"
  ELSE "Failed"

\* What a response to an analyze request amounts to: findings, or nothing.
Accepted(resp) == resp.kind = "success" /\ resp.ctype = "json" /\ resp.form = "json"
OutcomeOf(resp) == IF Accepted(resp) THEN Arr(resp.items) ELSE Null

\* A step that resolves an analyze request whose response is a failure.
AnalyzeFailureStep ==
  \E i \in 1..Len(analyzeReqs) :
    /\ analyzeReqs' = RemoveAt(analyzeReqs, i)
    /\ analyzeReqs[i].resp # NoResponse
    /\ ~Accepted(analyzeReqs[i].resp)

\* A step that resolves a view (download) request whose response is a failure.
ViewFailureStep ==
  \E i \in 1..Len(viewReqs) :
    /\ viewReqs' = RemoveAt(viewReqs, i)
    /\ viewReqs[i].resp # NoResponse
    /\ ~(viewReqs[i].resp.kind = "success" /\ viewReqs[i].resp.ctype = "html")

DownloadFailureStep ==
  \E i \in 1..Len(downloadReqs) :
    /\ downloadReqs' = RemoveAt(downloadReqs, i)
    /\ downloadReqs[i].resp # NoResponse
    /\ ~(downloadReqs[i].resp.kind = "success" /\ downloadReqs[i].resp.ctype \in {"xlsx", "xls"})

\* C1: once every analyze request has resolved, the stored result and
\* filename are those of the most recently issued StartAnalysis call: no
\* response of an earlier call has overwritten or cleared them.
C1_LatestCallWins ==
  (issued > 0 /\ Len(analyzeReqs) = 0) =>
    /\ latest.resp # NoResponse
    /\ originalFilename = latest.file
    /\ analysisResults = OutcomeOf(latest.resp)
    /\ ~spinner

\* Two calls have been issued and resolved, the second with findings.
C1_Witness ==
  /\ issued >= 2
  /\ Len(analyzeReqs) = 0
  /\ ~analysisResults.isNull
  /\ Len(analysisResults.items) > 0

\* C2: once a new StartAnalysis has begun, the previous analysis is never
\* surfaced again: every report rendered in the result-display surface and
\* every file saved comes from the findings of the current analysis.
C2_NoStaleSurface ==
  [][ /\ (modalReportOutput' # modalReportOutput /\ modalReportOutput'.kind = "report")
           => modalReportOutput'.gen = issued'
      /\ clock' # clock => lastSaved'.gen = issued' ]_vars

\* C3: while no result is stored (Idle, Analyzing, Failed) no step issues a
\* format request, and ViewReport or DownloadReport only raises the
\* precondition notice.
C3_NotReadyNoRequest ==
  [][ analysisResults.isNull =>
        /\ Len(viewReqs') <= Len(viewReqs)
        /\ Len(downloadReqs') <= Len(downloadReqs)
        /\ (HandleViewHtmlReport \/ HandleExcelDownload) =>
             /\ alertBox'.shown
             /\ alertBox'.then = "return"
             /\ alertBox'.text \in
                  { "No analysis data available. Please analyze a file first.",
                    "No analysis data available to download." }
             /\ UNCHANGED << analysisResults, originalFilename, modalShown,
                             modalReportOutput, viewReportButton,
                             downloadReportButton, lastSaved, clock, localStorage >>
    ]_vars

\* ViewReport was invoked after a failed analysis and refused.
C3_Witness ==
  /\ Status = "Failed"
  /\ alertBox.shown
  /\ alertBox.text = "No analysis data available. Please analyze a file first."
  /\ Len(viewReqs) = 0

\* C4: with an empty result, DownloadReport issues no request, saves no file,
\* leaves the download history alone and shows the nothing-to-download notice.
C4_EmptyDownloadRefused ==
  [][ (HandleExcelDownload /\ analysisResults = Arr(<< >>)) =>
        /\ downloadReqs' = downloadReqs
        /\ lastSaved' = lastSaved
        /\ clock' = clock
        /\ localStorage' = localStorage
        /\ alertBox'.shown
        /\ alertBox'.text = "Analysis completed, but no findings were generated to download."
    ]_vars

C4_Witness ==
  /\ analysisResults = Arr(<< >>)
  /\ alertBox.shown
  /\ alertBox.text = "Analysis completed, but no findings were generated to download."
  /\ Len(downloadReqs) = 0

\* C5: with an empty result, ViewReport opens the result-display surface with
\* the no-findings message for the source filename and issues no request.
C5_EmptyViewPlaceholder ==
  [][ (HandleViewHtmlReport /\ analysisResults = Arr(<< >>)) =>
        /\ viewReqs' = viewReqs
        /\ modalShown'
        /\ modalReportOutput' =
             [kind |-> "nofindings", gen |-> 0, items |-> << >>,
              name |-> originalFilename, msg |-> NoMsg]
    ]_vars

C5_Witness ==
  /\ analysisResults = Arr(<< >>)
  /\ modalShown
  /\ modalReportOutput.kind = "nofindings"
  /\ modalReportOutput.name = originalFilename
  /\ originalFilename \in FileNames
  /\ Len(viewReqs) = 0

\* C6: every resolution of a StartAnalysis call, success or failure, leaves
\* the trigger control enabled with its idle label and the file input empty.
C6_TriggerRestored ==
  [][ Len(analyzeReqs') < Len(analyzeReqs) =>
        /\ analyzeButton' = [disabled |-> FALSE, textContent |-> "UPLOAD & ANALYZE"]
        /\ fileInput' = << >>
    ]_vars

\* A call has resolved with a failure and the control is back.
C6_Witness ==
  /\ issued > 0
  /\ Len(analyzeReqs) = 0
  /\ latest.resp.kind = "error"
  /\ ~analyzeButton.disabled
  /\ fileInput = << >>

\* C7: starting from an empty log, the log never holds more than 10 entries
\* and is ordered newest first; a successful download puts its entry at the
\* front, keeps the entries before it in order and unchanged, and drops what
\* lies beyond the 10 most recent.
NewestFirst(entries) ==
  \A k \in 1..(Len(entries) - 1) : entries[k].timestamp > entries[k + 1].timestamp

C7_HistoryCapped ==
  /\ [](Len(localStorage.entries) <= 10 /\ NewestFirst(localStorage.entries))
  /\ [][ clock' # clock =>
           LET old == localStorage.entries
               new == localStorage'.entries
           IN /\ Len(new) = (IF Len(old) < 10 THEN Len(old) + 1 ELSE 10)
              /\ new[1].filename = lastSaved'.name
              /\ new[1].timestamp = clock'
              /\ \A k \in 2..Len(new) : new[k] = old[k - 1]
       ]_vars

\* An eleventh download has been saved and the oldest entry dropped.
C7_Witness ==
  /\ clock > 10
  /\ Len(localStorage.entries) = 10
  /\ localStorage.entries[10].timestamp > 1

\* C8: at most one request of each kind is outstanding, and while one is,
\* the control that triggers its kind is disabled.
C8_OneInFlightPerKind ==
  /\ Len(analyzeReqs) <= 1
  /\ Len(viewReqs) <= 1
  /\ Len(downloadReqs) <= 1
  /\ Len(analyzeReqs) = 1 => analyzeButton.disabled
  /\ Len(viewReqs) = 1 => viewReportButton.disabled
  /\ Len(downloadReqs) = 1 => downloadReportButton.disabled

\* One request of each kind is outstanding at once.
C8_Witness ==
  /\ Len(analyzeReqs) = 1
  /\ Len(viewReqs) = 1
  /\ Len(downloadReqs) = 1

\* C9: a failed ViewReport or DownloadReport leaves the stored result, the
\* filename and the result-display surface as they were and raises a notice;
\* a request issued by either action carries the stored findings and
\* filename, so a retry sends the same findings.
C9_FormatFailureKeepsSession ==
  [][ /\ (ViewFailureStep \/ DownloadFailureStep) =>
           /\ analysisResults' = analysisResults
           /\ originalFilename' = originalFilename
           /\ modalReportOutput' = modalReportOutput
           /\ modalShown' = modalShown
           /\ alertBox'.shown
           /\ alertBox'.msg # NoMsg
      /\ Len(viewReqs') > Len(viewReqs) =>
           /\ viewReqs'[Len(viewReqs')].items = analysisResults.items
           /\ viewReqs'[Len(viewReqs')].name = originalFilename
      /\ Len(downloadReqs') > Len(downloadReqs) =>
           /\ downloadReqs'[Len(downloadReqs')].items = analysisResults.items
           /\ downloadReqs'[Len(downloadReqs')].name = originalFilename
    ]_vars

\* A view failed with an unexpected content type; the findings are still
\* stored and the surface was never opened.
C9_Witness ==
  /\ alertBox.shown
  /\ alertBox.then = "viewFinally"
  /\ alertBox.msg.src = "expectedHtml"
  /\ ~analysisResults.isNull
  /\ Len(analysisResults.items) > 0
  /\ modalReportOutput.kind = "initial"

\* C10: a failed analyze request ends with no stored result, the failure
\* message in the opened result-display surface, and the trigger control
\* enabled with the file input empty, so that a new file can be selected.
C10_AnalysisFailureSurfaced ==
  [][ AnalyzeFailureStep =>
        /\ analysisResults' = Null
        /\ modalShown'
        /\ modalReportOutput'.kind = "error"
        /\ modalReportOutput'.msg # NoMsg
        /\ ~spinner'
        /\ ~analyzeButton'.disabled
        /\ fileInput' = << >>
    ]_vars

\* A success status with a non-JSON content type has been handled as a failure.
C10_Witness ==
  /\ Status = "Failed"
  /\ modalShown
  /\ modalReportOutput.kind = "error"
  /\ modalReportOutput.msg.src = "expectedJson"
  /\ ~analyzeButton.disabled

\* ------------------------------------------------ messages and file names
\* The first <pre>...</pre> of a text, whatever lies between the tags.
FirstPre(s) ==
  LET closers(i) == { j \in (i + 5)..Len(s) : IsCloseTag(s, j) }
      starts == { i \in 1..Len(s) : IsOpenTag(s, i) /\ closers(i) # {} }
  IN IF starts = {}
       THEN [found |-> FALSE, group |-> << >>]
       ELSE LET i == Least(starts)
            IN [found |-> TRUE, group |-> SubSeq(s, i + 5, Least(closers(i)) - 1)]

\* The response carries a structured (JSON) body with a detail field.
HasDetail(f) ==
  /\ f.kind = "error"
  /\ IsJson(f.ctype)
  /\ f.body.parses
  /\ ~f.body.isNull
  /\ f.body.detail # << >>

\* The message in the stated priority order: detail, first <pre>, preview.
PriorityText(f) ==
  IF HasDetail(f) THEN f.body.detail
  ELSE IF FirstPre(f.body.text).found THEN Trim(FirstPre(f.body.text).group)
  ELSE Substring(f.body.text, 0, PreviewLength)

\* C11: the message derived from a non-2xx response is the detail field of
\* a JSON body that has one, otherwise the trimmed text of the first
\* <pre>...</pre> of the body, otherwise the first 500 characters of the body.
C11_MessagePriority ==
  (errorMessage.derived /\ errorResponse.kind = "error")
    => errorMessage = BodyText(PriorityText(errorResponse))

\* C12: every failure of analyze, view or download yields a non-empty
\* message, and a message taken from the body of the response other than its
\* detail field holds at most 500 characters of that body.
C12_MessageBounded ==
  errorMessage.derived
    => /\ ~IsEmptyMessage(errorMessage)
       /\ ~HasDetail(errorResponse) => Len(errorMessage.text) <= PreviewLength

\* The name up to its last dot (the whole name when it has no dot).
WithoutExtension(name) ==
  LET dots == { i \in 1..Len(name) : name[i] = "." }
  IN IF dots = {}
       THEN name
       ELSE SubSeq(name, 1, (CHOOSE i \in dots : \A k \in dots : k <= i) - 1)

\* C13: for every source filename the file is saved as
\* PCI_DSS_Action_Report_<source filename without its extension>.xlsx.
C13_SavedName ==
  savedName # NoName
    => savedName = ReportPrefix \o WithoutExtension(sourceName) \o DotXlsx

\* ------------------------------------------------- media types and the log
\* A step that resolves view (download) request i.
ViewResolves(i) ==
  /\ viewReqs[i].resp # NoResponse
  /\ viewReqs' = RemoveAt(viewReqs, i)

DownloadResolves(i) ==
  /\ downloadReqs[i].resp # NoResponse
  /\ downloadReqs' = RemoveAt(downloadReqs, i)

\* C14: a format-as-view response is rendered only if its status is a
\* success and its media type is HTML, and then the surface shows the
\* returned body; a success response of any other or of no media type is a
\* failure whose message names the expected and the actual type, and the
\* surface is left unchanged.
C14_ViewMediaType ==
  [][ /\ \A i \in 1..Len(viewReqs) :
           ViewResolves(i) =>
             LET resp == viewReqs[i].resp IN
             IF resp.kind = "success" /\ resp.ctype = "html"
               THEN /\ modalShown'
                    /\ modalReportOutput' = ReportHtml(viewReqs[i])
               ELSE /\ modalReportOutput' = modalReportOutput
                    /\ modalShown' = modalShown
                    /\ alertBox'.shown
                    /\ alertBox'.text = "Could not display report"
                    /\ resp.kind = "success"
                         => alertBox'.msg = Msg("expectedHtml", resp.ctype)
      /\ (modalReportOutput' # modalReportOutput /\ modalReportOutput'.kind = "report")
           => \E i \in 1..Len(viewReqs) :
                /\ ViewResolves(i)
                /\ viewReqs[i].resp.kind = "success"
                /\ viewReqs[i].resp.ctype = "html"
    ]_vars

\* A 2xx response without a content type has been reported, nothing rendered.
C14_Witness ==
  /\ alertBox.shown
  /\ alertBox.msg = Msg("expectedHtml", "none")
  /\ modalReportOutput.kind # "report"
  /\ ~modalShown

\* C15: a format-as-download response makes the browser save a file only if
\* its status is a success and its media type is a spreadsheet type; a
\* non-2xx response, or a success response of any other or of no media type,
\* saves no file and is reported as a failure.
C15_DownloadMediaType ==
  [][ /\ \A i \in 1..Len(downloadReqs) :
           (/\ DownloadResolves(i)
            /\ ~(/\ downloadReqs[i].resp.kind = "success"
                 /\ downloadReqs[i].resp.ctype \in {"xlsx", "xls"}))
             => /\ lastSaved' = lastSaved
                /\ clock' = clock
                /\ alertBox'.shown
                /\ alertBox'.text = "Could not download report"
                /\ alertBox'.msg # NoMsg
      /\ (lastSaved' # lastSaved \/ clock' # clock)
           => \E i \in 1..Len(downloadReqs) :
                /\ DownloadResolves(i)
                /\ downloadReqs[i].resp.kind = "success"
                /\ downloadReqs[i].resp.ctype \in {"xlsx", "xls"}
                /\ lastSaved'.saved
    ]_vars

\* A 2xx response without a content type has been reported, no file saved.
C15_Witness ==
  /\ alertBox.shown
  /\ alertBox.msg = Msg("expectedExcel", "none")
  /\ ~lastSaved.saved
  /\ clock = 0

\* C16: the persisted log changes only in a step that resolves a download
\* request successfully, and that step puts exactly one entry, carrying the
\* saved filename, in front of the entries already there; StartAnalysis,
\* ViewReport, a refused and a failed DownloadReport leave the log unchanged.
C16_LogWrittenByDownloadOnly ==
  [][ /\ localStorage' # localStorage
           => /\ \E i \in 1..Len(downloadReqs) :
                   /\ DownloadResolves(i)
                   /\ downloadReqs[i].resp.kind = "success"
                   /\ downloadReqs[i].resp.ctype \in {"xlsx", "xls"}
              /\ lastSaved'.saved
              /\ Len(localStorage'.entries)
                   = Min(Len(localStorage.entries) + 1, MAX_HISTORY_ITEMS)
              /\ Head(localStorage'.entries).filename = lastSaved'.name
              /\ Tail(localStorage'.entries)
                   = SubSeq(localStorage.entries, 1, Len(localStorage'.entries) - 1)
      /\ clock' # clock => localStorage' # localStorage
      /\ ( \/ Len(analyzeReqs') # Len(analyzeReqs)
           \/ Len(viewReqs') # Len(viewReqs)
           \/ alertBox'.shown
           \/ modalReportOutput' # modalReportOutput )
           => localStorage' = localStorage
    ]_vars

\* A file has been saved and logged after a download that failed and a
\* report that was viewed.
C16_Witness ==
  /\ lastSaved.saved
  /\ Len(localStorage.entries) = 1
  /\ localStorage.entries[1].filename = lastSaved.name
  /\ modalReportOutput.kind = "report"

\* C17: opening and closing the download history leave the persisted log,
\* the stored result and the source filename as they were, whatever the log
\* holds (nothing, entries, unreadable content), and the entries are
\* rendered in the order in which they are stored.
C17_HistoryViewReadsOnly ==
  [][ /\ (DisplayDownloadHistory \/ CloseDownloadHistoryModal)
           => /\ localStorage' = localStorage
              /\ analysisResults' = analysisResults
              /\ originalFilename' = originalFilename
      /\ (DisplayDownloadHistory /\ localStorage.readable)
           => /\ Len(downloadHistoryOutput'.rows) = Len(localStorage.entries)
              /\ \A k \in 1..Len(localStorage.entries) :
                   /\ downloadHistoryOutput'.rows[k].safeFilename
                        = EscapeFilename(localStorage.entries[k].filename)
                   /\ downloadHistoryOutput'.rows[k].formattedDate
                        = FormatDate(localStorage.entries[k].timestamp)
    ]_vars

\* The dialog shows a log of three entries, the newest saved in this visit.
C17_Witness ==
  /\ historyShown
  /\ downloadHistoryOutput.kind = "list"
  /\ Len(downloadHistoryOutput.rows) = 3
  /\ Len(localStorage.entries) = 3
  /\ localStorage.entries[1].timestamp = 1
  /\ ~analysisResults.isNull

\* The dialog has been opened on a log that cannot be read.
UnreadableLogShown ==
  /\ historyShown
  /\ downloadHistoryOutput.kind = "error"
  /\ ~localStorage.readable
  /\ ~analysisResults.isNull

\* C18: whenever a result is stored, the stored source filename is the name
\* of the file whose analysis produced that result, and a view or download
\* request issued for the current analysis carries the findings and the
\* filename of that one analysis.
C18_SessionOfOneAnalysis ==
  /\ ~analysisResults.isNull
       => /\ latest.resp # NoResponse
          /\ analysisResults = Arr(latest.resp.items)
          /\ originalFilename = latest.file
  /\ \A k \in 1..Len(viewReqs) :
       viewReqs[k].gen = issued
         => /\ latest.resp # NoResponse
            /\ viewReqs[k].items = latest.resp.items
            /\ viewReqs[k].name = latest.file
  /\ \A k \in 1..Len(downloadReqs) :
       downloadReqs[k].gen = issued
         => /\ latest.resp # NoResponse
            /\ downloadReqs[k].items = latest.resp.items
            /\ downloadReqs[k].name = latest.file

\* The second analysis, of another file than the first, has stored its
\* result and a view request for it is outstanding.
C18_Witness ==
  /\ issued = 2
  /\ ~analysisResults.isNull
  /\ originalFilename = FileScan
  /\ Len(viewReqs) = 1
  /\ viewReqs[1].gen = 2
  /\ viewReqs[1].name = FileScan

\* The characters of a text.
Chars(s) == { s[k] : k \in 1..Len(s) }

\* C19: the rendered download history holds no "<" and no ">" that comes
\* from a filename: every filename is escaped before it is inserted.
C19_FilenamesEscaped ==
  \A k \in 1..Len(downloadHistoryOutput.rows) :
    Chars(downloadHistoryOutput.rows[k].safeFilename) \cap {"<", ">"} = {}

\* The history shows an entry whose stored filename holds "<" and ">".
C19_Witness ==
  /\ historyShown
  /\ downloadHistoryOutput.kind = "list"
  /\ Len(localStorage.entries) = Len(downloadHistoryOutput.rows)
  /\ \E k \in 1..Len(downloadHistoryOutput.rows) :
       /\ {"<", ">"} \subseteq Chars(localStorage.entries[k].filename)
       /\ downloadHistoryOutput.rows[k].safeFilename
            = EscapeFilename(localStorage.entries[k].filename)
       /\ "&" \in Chars(downloadHistoryOutput.rows[k].safeFilename)

\* C20: while an analyze request is outstanding the stored result is unset,
\* the trigger control is disabled and the busy indicator is shown.
C20_AnalyzingState ==
  Len(analyzeReqs) > 0
    => /\ analysisResults.isNull
       /\ analyzeButton.disabled
       /\ spinner

\* The second analysis is outstanding, the first one had stored a result
\* for which a view request is still outstanding.
C20_Witness ==
  /\ issued = 2
  /\ Len(analyzeReqs) = 1
  /\ analyzeReqs[1].resp # NoResponse
  /\ Len(viewReqs) = 1
  /\ viewReqs[1].gen = 1

\* --------------------------------------------------- the name of a download
\* C21: the name under which a download is saved and logged is derived from
\* the source filename that was sent in the download request, whatever
\* analysis has been started since the request was issued.
C21_SavedNameOfRequest ==
  [][ clock' # clock
        => \E i \in 1..Len(downloadReqs) :
             /\ DownloadResolves(i)
             /\ lastSaved'.name = DownloadFilename(downloadReqs[i].name)
             /\ Head(localStorage'.entries).filename
                  = DownloadFilename(downloadReqs[i].name)
    ]_vars

\* ------------------------------------------------ the view/download controls
\* C22: the view (download) control is disabled and relabelled in every
\* state in which its request is outstanding, and once the request has
\* resolved and the handler has run to its end (past the alert of a failure)
\* the control is enabled again under its original label.
C22_ControlBusyWhileOutstanding ==
  /\ Len(viewReqs) > 0
       => viewReportButton = [disabled |-> TRUE, textContent |-> "Loading View..."]
  /\ (Len(viewReqs) = 0 /\ ~(alertBox.shown /\ alertBox.then = "viewFinally"))
       => viewReportButton = [disabled |-> FALSE, textContent |-> "View Analysis Report"]
  /\ Len(downloadReqs) > 0
       => downloadReportButton = [disabled |-> TRUE, textContent |-> "DOWNLOADING..."]
  /\ (Len(downloadReqs) = 0 /\ ~(alertBox.shown /\ alertBox.then = "downloadFinally"))
       => downloadReportButton = [disabled |-> FALSE, textContent |-> "Download Report"]

\* A view request has resolved and its report is shown, a download has been
\* saved, and a further download request is outstanding.
C22_Witness ==
  /\ modalReportOutput.kind = "report"
  /\ Len(viewReqs) = 0
  /\ ~viewReportButton.disabled
  /\ lastSaved.saved
  /\ Len(downloadReqs) = 1
  /\ downloadReportButton.disabled
  /\ ~alertBox.shown

\* ------------------------------------------------------------- termination
\* The analysis has come to its end: Ready or Failed, the busy indicator
\* hidden and the trigger control enabled.
AnalysisEnded ==
  /\ Len(analyzeReqs) = 0
  /\ Status \in {"Ready", "Failed"}
  /\ ~spinner
  /\ ~analyzeButton.disabled

\* C23: if every request is answered, every StartAnalysis leaves the
\* Analyzing state: Ready or Failed is reached with the busy indicator
\* hidden and the trigger control enabled.
C23_AnalysisTerminates == (Len(analyzeReqs) > 0) ~> AnalysisEnded

\* C23, amended: the same provided the page is again and again free of an
\* alert(); and the busy indicator is never shown, nor the trigger disabled,
\* without an analyze request outstanding.
C23_TerminatesIfAlertsDismissed ==
  /\ ([]<>(~alertBox.shown)) => ((Len(analyzeReqs) > 0) ~> AnalysisEnded)
  /\ []((spinner \/ analyzeButton.disabled) => Len(analyzeReqs) > 0)

\* The second analysis has ended in Failed, after a first one that ended in
\* Ready, and no alert is on screen.
C23_Witness ==
  /\ issued = 2
  /\ AnalysisEnded
  /\ Status = "Failed"
  /\ latest.resp = TransportFailure
  /\ modalReportOutput.kind = "error"
  /\ ~alertBox.shown

\* ----------------------------------------------- controls after a failure
\* C24: an analysis that fails still reveals the view and download
\* controls: after the failure they are visible although no result is
\* stored, and using either of them in that state issues no request.
C24_FailureRevealsControls ==
  [][ /\ AnalyzeFailureStep
           => /\ buttonsShown'
              /\ analysisResults'.isNull
      /\ (/\ Status = "Failed"
          /\ buttonsShown
          /\ (HandleViewHtmlReport \/ HandleExcelDownload))
           => /\ viewReqs' = viewReqs
              /\ downloadReqs' = downloadReqs
              /\ analysisResults'.isNull
    ]_vars

\* After a failed analysis the download control was used and refused.
C24_Witness ==
  /\ Status = "Failed"
  /\ latest.resp # NoResponse
  /\ ~Accepted(latest.resp)
  /\ buttonsShown
  /\ alertBox.shown
  /\ alertBox.text = "No analysis data available to download."
  /\ Len(downloadReqs) = 0
  /\ Len(viewReqs) = 0

====
